---------------------------- MODULE Spec2Model ----------------------------
(***************************************************************************)
(* A model of zplib's two utility modules:                                 *)
(*   zplib/scalar_stats/regress.py  r_squared, regress, CVRegress,         *)
(*                                  _fit_predict                           *)
(*   zplib/image/draw.py            gouraud_triangle_strip,                *)
(*                                  mask_triangle_strip                    *)
(*                                                                         *)
(* Numbers are exact rationals <<num, den>> (den > 0, lowest terms); the   *)
(* rounding of floating point is not modelled.  A division by zero gives   *)
(* numpy's inf / nan, never an exception.                                  *)
(* An array is a record [ndim, cols]: cols is the sequence of its columns, *)
(* a 1-dimensional array has ndim = 1 and one column.                      *)
(***************************************************************************)
EXTENDS Integers, Sequences, FiniteSets, TLC

\* ------------------------------------------------------------------ bounds
\* number of data points (n_data) of X, y and C
NumSamples == 3
\* data values are drawn from 0..MaxVal
MaxVal == 1

\* ------------------------------------------------------------ rationals
Abs(a) == IF a < 0 THEN -a ELSE a

RECURSIVE GCD(_, _)
GCD(a, b) == IF b = 0 THEN a ELSE GCD(b, a % b)

\* the rational n/d (d # 0) in lowest terms with a positive denominator
Rat(n, d) ==
    LET g == GCD(Abs(n), Abs(d))
        s == IF d < 0 THEN -1 ELSE 1
    IN  <<(s * n) \div g, (s * d) \div g>>

Int2Rat(k) == <<k, 1>>
Zero == <<0, 1>>
One == <<1, 1>>
\* sums and products cancel common factors before they multiply, to keep
\* the intermediate integers small
RAdd(p, q) ==
    LET g == GCD(p[2], q[2])
    IN  Rat(p[1] * (q[2] \div g) + q[1] * (p[2] \div g), (p[2] \div g) * q[2])
RNeg(p) == <<-p[1], p[2]>>
RSub(p, q) == RAdd(p, RNeg(q))
RMul(p, q) ==
    LET g == GCD(Abs(p[1]), q[2])
        h == GCD(Abs(q[1]), p[2])
    IN  Rat((p[1] \div g) * (q[1] \div h), (p[2] \div h) * (q[2] \div g))
\* 1 / q for q # 0
RInv(q) == IF q[1] < 0 THEN <<-q[2], -q[1]>> ELSE <<q[2], q[1]>>
RDiv(p, q) == RMul(p, RInv(q))
RIsZero(p) == p[1] = 0

RECURSIVE RSum(_)
RSum(s) == IF s = <<>> THEN Zero ELSE RAdd(Head(s), RSum(Tail(s)))

\* numpy's mean of a 1-dimensional array
Mean(s) == RDiv(RSum(s), Int2Rat(Len(s)))

\* a float that may be inf or nan: [kind, val], val meaningful for "num"
Num(p) == [kind |-> "num", val |-> p]
NaN == [kind |-> "nan", val |-> Zero]
NegInf == [kind |-> "-inf", val |-> Zero]
PosInf == [kind |-> "inf", val |-> Zero]

\* p / q for floats of numpy arrays: x/0 is inf (x > 0), nan (x = 0)
FloatDiv(p, q) ==
    IF ~RIsZero(q) THEN Num(RDiv(p, q))
    ELSE IF RIsZero(p) THEN NaN
    ELSE IF p[1] > 0 THEN PosInf ELSE NegInf

\* 1 - f
OneMinus(f) ==
    CASE f.kind = "num" -> Num(RSub(One, f.val))
      [] f.kind = "inf" -> NegInf
      [] f.kind = "-inf" -> PosInf
      [] OTHER -> NaN

\* --------------------------------------------------------------- arrays
NoArray == [ndim |-> 0, cols |-> <<>>]
Array1(v) == [ndim |-> 1, cols |-> <<v>>]
Array2(cs) == [ndim |-> 2, cols |-> cs]

\* X[:, numpy.newaxis] of a 1-dimensional X
NewAxis(a) == [ndim |-> 2, cols |-> a.cols]

\* numpy.squeeze of an (n, 1) or (n,) array with n > 1
Squeeze(a) == IF Len(a.cols) = 1 THEN [ndim |-> 1, cols |-> a.cols] ELSE a

\* a - b, elementwise, of two arrays of one shape
ArraySub(a, b) ==
    [ndim |-> a.ndim,
     cols |-> [j \in 1..Len(a.cols) |->
                 [i \in 1..Len(a.cols[j]) |-> RSub(a.cols[j][i], b.cols[j][i])]]]

\* the vectors of NumSamples integers of 0..MaxVal, as rationals
DataVectors == {[i \in 1..NumSamples |-> Int2Rat(f[i])] : f \in [1..NumSamples -> 0..MaxVal]}


\* ------------------------------------------------------------ regressors
\* A regressor object: its class, its fitted parameters (one coefficient and
\* one intercept per target column; empty before any fit) and, for CVRegress,
\* its cv.
NotFitted == [coef |-> <<>>, intercept |-> <<>>]

\* linear_model.LinearRegression()
LinearRegression == [cls |-> "LinearRegression", fitted |-> NotFitted, cv |-> 0]

\* CVRegress(regressor, cv): __init__ stores both; the wrapped regressor's
\* fitted parameters are kept in "fitted"
CVRegress(regressor, cv) == [cls |-> "CVRegress", fitted |-> regressor.fitted, cv |-> cv]

\* regressor=None
NoRegressor == [cls |-> "None", fitted |-> NotFitted, cv |-> 0]

\* hasattr(regressor, 'fit_predict')
has_fit_predict(regressor) == regressor.cls = "CVRegress"

\* least squares of one target column t on the single feature column x, with
\* an intercept; a constant x gets the coefficient 0 (minimum-norm solution)
LstSq(x, t) ==
    LET n == Int2Rat(Len(x))
        sx == RSum(x)
        st == RSum(t)
        sxx == RSub(RMul(n, RSum([i \in 1..Len(x) |-> RMul(x[i], x[i])])), RMul(sx, sx))
        sxt == RSub(RMul(n, RSum([i \in 1..Len(x) |-> RMul(x[i], t[i])])), RMul(sx, st))
        coef == IF RIsZero(sxx) THEN Zero ELSE RDiv(sxt, sxx)
    IN  [coef |-> coef, intercept |-> RSub(Mean(t), RMul(coef, Mean(x)))]

\* regressor.fit(X, y) of a LinearRegression: the regressor with the
\* parameters of this fit, whatever it held before
fit(regressor, Xa, ya) ==
    [regressor EXCEPT !.fitted =
        [coef |-> [j \in 1..Len(ya.cols) |-> LstSq(Xa.cols[1], ya.cols[j]).coef],
         intercept |-> [j \in 1..Len(ya.cols) |-> LstSq(Xa.cols[1], ya.cols[j]).intercept]]]

\* regressor.predict(X): an array of the shape of the fitted target
predict(regressor, Xa, ndim) ==
    [ndim |-> ndim,
     cols |-> [j \in 1..Len(regressor.fitted.coef) |->
                 [i \in 1..Len(Xa.cols[1]) |->
                     RAdd(regressor.fitted.intercept[j],
                          RMul(regressor.fitted.coef[j], Xa.cols[1][i]))]]]

\* zeros of the shape of array a
ZerosLike(a) ==
    [ndim |-> a.ndim, cols |-> [j \in 1..Len(a.cols) |-> [i \in 1..Len(a.cols[j]) |-> Zero]]]

\* model_selection.cross_val_predict(estimator, X, y=y, cv=cv): the library's
\* out-of-fold predictions, an array of y's shape.  The routine works on
\* clones of the estimator; which values it returns is the library's choice,
\* drawn here from two candidates.
cross_val_predict(estimator, Xa, ya, cv) == {ZerosLike(ya), ya}

\* CVRegress.fit_predict(X, y): the possible return values; no attribute of
\* self is assigned
CVRegress_fit_predict(self, Xa, ya) == cross_val_predict(self, Xa, ya, self.cv)

\* one call on the regressor, as recorded in the call log
Call(op, Xa, ya, ret) == [op |-> op, X |-> Xa, y |-> ya, ret |-> ret]

\* _fit_predict(X, y, regressor): the possible outcomes [ret, regressor, calls]
\* with the calls made on the regressor appended to log
_fit_predict(Xa, ya, regressor, log) ==
    IF has_fit_predict(regressor)
    THEN {[ret |-> p, regressor |-> regressor,
           calls |-> Append(log, Call("fit_predict", Xa, ya, p))]
            : p \in CVRegress_fit_predict(regressor, Xa, ya)}
    ELSE LET fitted == fit(regressor, Xa, ya)
             p == predict(fitted, Xa, ya.ndim)
         IN  {[ret |-> p, regressor |-> fitted,
               calls |-> log \o <<Call("fit", Xa, ya, NoArray),
                                  Call("predict", Xa, NoArray, p)>>]}

\* ------------------------------------------------------------ r_squared
\* y.var(axis=0) of one column: the mean of the squared deviations from the
\* column's mean
Var(col) ==
    LET m == Mean(col)
    IN  Mean([i \in 1..Len(col) |-> RMul(RSub(col[i], m), RSub(col[i], m))])

\* (resid**2).mean(axis=0) of one column
MeanSq(col) == Mean([i \in 1..Len(col) |-> RMul(col[i], col[i])])

\* r_squared with the variance of the residuals about their mean in place of
\* the mean of their squares
r_squared_centered(ya, y_est) ==
    LET resid == ArraySub(ya, y_est)
    IN  [resid |-> resid,
         R2 |-> [j \in 1..Len(ya.cols) |->
                   OneMinus(FloatDiv(Var(resid.cols[j]), Var(ya.cols[j])))]]

\* r_squared(y, y_est): resid = y - y_est and, per column,
\* R2 = 1 - (resid**2).mean(axis=0) / y.var(axis=0)
r_squared(ya, y_est) ==
    LET resid == ArraySub(ya, y_est)
    IN  [resid |-> resid,
         R2 |-> [j \in 1..Len(ya.cols) |->
                   OneMinus(FloatDiv(MeanSq(resid.cols[j]), Var(ya.cols[j])))]]


\* ------------------------------------------------------------------ state
VARIABLES
    pc,         \* regress: the line the call is at ("idle", "L69", "L84", "L86", "L88", "done")
    args,       \* regress: the arguments of the call
    X, y, C,    \* regress: its locals X, y and C
    regressor,  \* regress: the regressor object in use
    calls,      \* regress: the calls made on the regressor object, in order
    result,     \* regress: the RegressionResult returned
    r2_call,    \* r_squared: the arguments and the value of the last call
    self,       \* the CVRegress object (cls "None" before construction)
    cv_call,    \* CVRegress: the last method call, its outcome, self before it
    cv_count,   \* CVRegress: how many fit_predict calls returned so far
    draw_call,  \* draw: the function called and its arguments
    draw_ret    \* draw: what the call raised or returned

regressVars == <<pc, args, X, y, C, regressor, calls, result>>
r2Vars == <<r2_call>>
cvVars == <<self, cv_call, cv_count>>
drawVars == <<draw_call, draw_ret>>
vars == <<regressVars, r2Vars, cvVars, drawVars>>

NoResult == [y_est |-> NoArray, resid |-> NoArray, R2 |-> <<>>,
             regressor |-> NoRegressor, X |-> NoArray]
NoArgs == [X |-> NoArray, y |-> NoArray, C |-> NoArray, control_y |-> FALSE,
           regressor |-> NoRegressor]

regressInit ==
    /\ pc = "idle"
    /\ args = NoArgs
    /\ X = NoArray
    /\ y = NoArray
    /\ C = NoArray
    /\ regressor = NoRegressor
    /\ calls = <<>>
    /\ result = NoResult

\* --------------------------------------------------------------- regress
\* the arguments a call may get: X, y 1-dimensional, C None or 1-dimensional,
\* regressor None, a LinearRegression or a CVRegress around one
XInputs == {Array1(v) : v \in DataVectors}
\* y: the vectors that start at 0
yInputs == {Array1(v) : v \in {u \in DataVectors : RIsZero(u[1])}}
\* control data: none, the ramp 0, 1, 2, ... and a step after the first point
CInputs == {NoArray, Array1([i \in 1..NumSamples |-> Int2Rat(i - 1)]),
            Array1([i \in 1..NumSamples |-> IF i = 1 THEN Zero ELSE One])}
RegressorInputs == {NoRegressor, LinearRegression, CVRegress(LinearRegression, NumSamples)}

\* lines 69-77: asarray, X[:, newaxis], the default regressor, the test of C
regress_enter ==
    /\ pc = "L69"
    /\ X' = IF args.X.ndim = 1 THEN NewAxis(args.X) ELSE args.X
    /\ y' = args.y
    /\ regressor' = IF args.regressor = NoRegressor THEN LinearRegression
                    ELSE args.regressor
    /\ pc' = IF args.C # NoArray THEN "L84" ELSE "L88"
    /\ UNCHANGED <<args, C, calls, result, r2Vars, cvVars, drawVars>>

\* regress_control_X with the test of control_y dropped: y is always controlled
regress_control_X_always_y ==
    /\ pc = "L84"
    /\ LET Ca == IF args.C.ndim = 1 THEN NewAxis(args.C) ELSE args.C
       IN  \E o \in _fit_predict(Ca, X, regressor, calls) :
               /\ C' = Ca
               /\ X' = ArraySub(X, o.ret)
               /\ regressor' = o.regressor
               /\ calls' = o.calls
    /\ pc' = "L86"
    /\ UNCHANGED <<args, y, result, r2Vars, cvVars, drawVars>>

\* lines 81-85: C[:, newaxis]; X = X - _fit_predict(C, X, regressor); the
\* test of control_y
regress_control_X ==
    /\ pc = "L84"
    /\ LET Ca == IF args.C.ndim = 1 THEN NewAxis(args.C) ELSE args.C
       IN  \E o \in _fit_predict(Ca, X, regressor, calls) :
               /\ C' = Ca
               /\ X' = ArraySub(X, o.ret)
               /\ regressor' = o.regressor
               /\ calls' = o.calls
    /\ pc' = IF args.control_y THEN "L86" ELSE "L88"
    /\ UNCHANGED <<args, y, result, r2Vars, cvVars, drawVars>>

\* regress_control_y fitting y against the controlled X instead of C
regress_control_y_against_X ==
    /\ pc = "L86"
    /\ \E o \in _fit_predict(X, y, regressor, calls) :
           /\ y' = ArraySub(y, o.ret)
           /\ regressor' = o.regressor
           /\ calls' = o.calls
    /\ pc' = "L88"
    /\ UNCHANGED <<args, X, C, result, r2Vars, cvVars, drawVars>>

\* line 86: y = y - _fit_predict(C, y, regressor)
regress_control_y ==
    /\ pc = "L86"
    /\ \E o \in _fit_predict(C, y, regressor, calls) :
           /\ y' = ArraySub(y, o.ret)
           /\ regressor' = o.regressor
           /\ calls' = o.calls
    /\ pc' = "L88"
    /\ UNCHANGED <<args, X, C, result, r2Vars, cvVars, drawVars>>

\* regress_return with r_squared's arguments swapped
regress_return_swapped ==
    /\ pc = "L88"
    /\ \E o \in _fit_predict(X, y, regressor, calls) :
           /\ regressor' = o.regressor
           /\ calls' = o.calls
           /\ result' = [y_est |-> o.ret,
                         resid |-> r_squared(o.ret, y).resid,
                         R2 |-> r_squared(o.ret, y).R2,
                         regressor |-> o.regressor,
                         X |-> Squeeze(X)]
    /\ pc' = "done"
    /\ UNCHANGED <<args, X, y, C, r2Vars, cvVars, drawVars>>

\* regress_return fitting a copy of the regressor and returning the one it
\* was given, as the control fits left it
regress_return_copy ==
    /\ pc = "L88"
    /\ \E o \in _fit_predict(X, y, regressor, calls) :
           /\ regressor' = regressor
           /\ calls' = calls
           /\ result' = [y_est |-> o.ret,
                         resid |-> r_squared(y, o.ret).resid,
                         R2 |-> r_squared(y, o.ret).R2,
                         regressor |-> regressor,
                         X |-> Squeeze(X)]
    /\ pc' = "done"
    /\ UNCHANGED <<args, X, y, C, r2Vars, cvVars, drawVars>>

\* lines 88-90: the main fit, r_squared, the RegressionResult
regress_return ==
    /\ pc = "L88"
    /\ \E o \in _fit_predict(X, y, regressor, calls) :
           /\ regressor' = o.regressor
           /\ calls' = o.calls
           /\ result' = [y_est |-> o.ret,
                         resid |-> r_squared(y, o.ret).resid,
                         R2 |-> r_squared(y, o.ret).R2,
                         regressor |-> o.regressor,
                         X |-> Squeeze(X)]
    /\ pc' = "done"
    /\ UNCHANGED <<args, X, y, C, r2Vars, cvVars, drawVars>>

\* a call of regress(X, y, C, control_y, regressor), its arguments drawn
regressInputs ==
    /\ pc = "L69"
    /\ \E Xin \in XInputs, yin \in yInputs, Cin \in CInputs, cy \in BOOLEAN,
          rin \in RegressorInputs :
            args = [X |-> Xin, y |-> yin, C |-> Cin, control_y |-> cy, regressor |-> rin]
    /\ X = NoArray
    /\ y = NoArray
    /\ C = NoArray
    /\ regressor = NoRegressor
    /\ calls = <<>>
    /\ result = NoResult

regressNext ==
    \/ regress_enter
    \/ regress_control_X
    \/ regress_control_y
    \/ regress_return



\* ------------------------------------------------- properties of regress
\* the arguments as regress sees them after asarray and [:, newaxis]
ArgX == NewAxis(args.X)
ArgC == NewAxis(args.C)

\* the calls one _fit_predict(Xa, ya, regressor) that returned ret makes
FitPredictCalls(Xa, ya, ret) ==
    IF has_fit_predict(regressor)
    THEN <<Call("fit_predict", Xa, ya, ret)>>
    ELSE <<Call("fit", Xa, ya, NoArray), Call("predict", Xa, NoArray, ret)>>

\* how many calls one _fit_predict makes on the regressor
CallsPerFit == IF has_fit_predict(regressor) THEN 1 ELSE 2

\* the value the k-th _fit_predict of the call returned
RetOf(k) == calls[k * CallsPerFit].ret

SomeNonZero(a) == \E j \in 1..Len(a.cols) : \E i \in 1..Len(a.cols[j]) : ~RIsZero(a.cols[j][i])

\* C3: with C=None regress is the plain computation of the regressor: the
\* regressor is used once, fit(X, y) then predict(X) (or one fit_predict(X, y)),
\* y_est is that prediction, resid = y - y_est, R2 = r_squared(y, y_est) of the
\* unmodified y, the returned X holds the input values, whatever control_y is.
C3_PlainRegression ==
    (pc = "done" /\ args.C = NoArray) =>
        /\ calls = FitPredictCalls(ArgX, args.y, result.y_est)
        /\ ~has_fit_predict(regressor) =>
               result.y_est = predict(fit(LinearRegression, ArgX, args.y), ArgX, args.y.ndim)
        /\ result.resid = ArraySub(args.y, result.y_est)
        /\ result.R2 = r_squared(args.y, result.y_est).R2
        /\ result.X = args.X

C3_Witness ==
    /\ pc = "done"
    /\ args.C = NoArray
    /\ args.control_y
    /\ ~has_fit_predict(regressor)
    /\ SomeNonZero(result.resid)
    /\ SomeNonZero(result.y_est)

\* C4: with C given and control_y=False, y is left unmodified and only X is
\* residualized against C: two fits take place, X against C and then the
\* original y against X minus the prediction of X from C; resid and R2 use the
\* original y; the returned X is the residualized X.
C4_SemiPartial ==
    (pc = "done" /\ args.C # NoArray /\ ~args.control_y) =>
        /\ y = args.y
        /\ Len(calls) = 2 * CallsPerFit
        /\ X = ArraySub(ArgX, RetOf(1))
        /\ calls = FitPredictCalls(ArgC, ArgX, RetOf(1))
                     \o FitPredictCalls(X, args.y, result.y_est)
        /\ result.resid = ArraySub(args.y, result.y_est)
        /\ result.R2 = r_squared(args.y, result.y_est).R2
        /\ result.X = Squeeze(X)

C4_Witness ==
    /\ pc = "done"
    /\ args.C # NoArray
    /\ ~args.control_y
    /\ ~has_fit_predict(regressor)
    /\ result.X # args.X
    /\ SomeNonZero(result.resid)

\* C9: with C given and control_y=True the order is fixed: X is fitted against
\* C, then y against C, then the controlled y against the controlled X; both
\* control fits have the original C as features and the original X and y as
\* targets; y_est, resid and R2 are relative to the controlled y.
C9_PartialOrder ==
    (pc = "done" /\ args.C # NoArray /\ args.control_y) =>
        /\ Len(calls) = 3 * CallsPerFit
        /\ X = ArraySub(ArgX, RetOf(1))
        /\ y = ArraySub(args.y, RetOf(2))
        /\ calls = FitPredictCalls(ArgC, ArgX, RetOf(1))
                     \o FitPredictCalls(ArgC, args.y, RetOf(2))
                     \o FitPredictCalls(X, y, result.y_est)
        /\ result.resid = ArraySub(y, result.y_est)
        /\ result.R2 = r_squared(y, result.y_est).R2

C9_Witness ==
    /\ pc = "done"
    /\ args.C # NoArray
    /\ args.control_y
    /\ ~has_fit_predict(regressor)
    /\ y # args.y
    /\ X # ArgX
    /\ X # ArgC
    /\ SomeNonZero(result.resid)

\* the places of the fit calls in the call log
FitPlaces == {i \in 1..Len(calls) : calls[i].op = "fit"}
LastFit == CHOOSE i \in FitPlaces : \A k \in FitPlaces : k <= i

\* C10 as stated: in every call the returned regressor has been fitted, and
\* the last fit performed on it is the fit of the final y against the final X.
C10_AlwaysFitted ==
    pc = "done" =>
        /\ FitPlaces # {}
        /\ calls[LastFit] = Call("fit", X, y, NoArray)
        /\ result.regressor.fitted = fit(LinearRegression, X, y).fitted

\* C10, amended: one regressor object serves every fit of the call and is
\* returned.  Without a fit_predict method its last fit is the fit of the
\* final y against the final X and its parameters are those of that fit;
\* with a fit_predict method regress never fits it: every call on it is
\* fit_predict, the last one fit_predict(final X, final y).
C10_ReturnedRegressor ==
    pc = "done" =>
        /\ result.regressor = regressor
        /\ regressor.cls = IF args.regressor = NoRegressor THEN "LinearRegression"
                           ELSE args.regressor.cls
        /\ IF has_fit_predict(regressor)
           THEN /\ \A i \in 1..Len(calls) : calls[i].op = "fit_predict"
                /\ calls[Len(calls)] = Call("fit_predict", X, y, result.y_est)
                /\ result.regressor = args.regressor
           ELSE /\ FitPlaces # {}
                /\ LastFit = Len(calls) - 1
                /\ calls[LastFit] = Call("fit", X, y, NoArray)
                /\ result.regressor.fitted = fit(LinearRegression, X, y).fitted

C10_Witness ==
    /\ pc = "done"
    /\ args.C # NoArray
    /\ args.control_y
    /\ ~has_fit_predict(regressor)
    /\ result.regressor.fitted # fit(LinearRegression, C, args.y).fitted
    /\ result.regressor.fitted # fit(LinearRegression, C, ArgX).fitted


\* ------------------------------------------------------- r_squared calls
\* the arrays r_squared is called with: 1-dimensional ones, and 2-dimensional
\* ones of two target columns (y: a vector and its reverse, y_est: a vector
\* and the same vector plus one)
Reverse(v) == [i \in 1..Len(v) |-> v[Len(v) + 1 - i]]
PlusOne(v) == [i \in 1..Len(v) |-> RAdd(v[i], One)]
R2Inputs ==
    {<<Array1(v), Array1(w)>> : v \in DataVectors, w \in DataVectors}
        \cup {<<Array2(<<v, Reverse(v)>>), Array2(<<w, PlusOne(w)>>)>>
                : v \in DataVectors, w \in DataVectors}

NoR2Call == [y |-> NoArray, y_est |-> NoArray, resid |-> NoArray, R2 |-> <<>>,
             done |-> FALSE]

r2Init == r2_call = NoR2Call

\* the arguments of the call drawn
r2Inputs ==
    \E a \in R2Inputs : r2_call = [NoR2Call EXCEPT !.y = a[1], !.y_est = a[2]]

\* resid, R2 = r_squared(y, y_est)
r_squared_call ==
    /\ ~r2_call.done
    /\ r2_call.y # NoArray
    /\ r2_call' = [r2_call EXCEPT !.resid = r_squared(r2_call.y, r2_call.y_est).resid,
                                  !.R2 = r_squared(r2_call.y, r2_call.y_est).R2,
                                  !.done = TRUE]
    /\ UNCHANGED <<regressVars, cvVars, drawVars>>

r2Next == r_squared_call

\* ------------------------------------------------------------- CVRegress
\* at most this many fit_predict calls are counted
MaxCalls == 2
\* cv is drawn from 2..MaxCv
MaxCv == 3

NoCvCall == [op |-> "none", X |-> NoArray, y |-> NoArray, raised |-> "none",
             ret |-> NoArray, before |-> NoRegressor]

cvInit ==
    /\ self = NoRegressor
    /\ cv_call = NoCvCall
    /\ cv_count = 0

\* the regressors a CVRegress may wrap: a fresh one, or one fitted before
WrappedInputs ==
    {LinearRegression} \cup {fit(LinearRegression, NewAxis(a), a) : a \in XInputs}

\* CVRegress.__init__(regressor, cv)
CVRegress_init(rin, cv) ==
    /\ self.cls = "None"
    /\ self' = CVRegress(rin, cv)
    /\ cv_call' = [NoCvCall EXCEPT !.op = "__init__"]
    /\ UNCHANGED <<cv_count, regressVars, r2Vars, drawVars>>

\* CVRegress.fit with the wrapped regressor fitted and self returned, as
\* sklearn's fit methods do
CVRegress_fit_wrapped(Xin, yin) ==
    /\ self.cls = "CVRegress"
    /\ self' = fit(self, Xin, yin)
    /\ cv_call' = [op |-> "fit", X |-> Xin, y |-> yin, raised |-> "none",
                   ret |-> NoArray, before |-> self]
    /\ UNCHANGED <<cv_count, regressVars, r2Vars, drawVars>>

\* CVRegress.fit(X, y): raise RuntimeError
CVRegress_fit(Xin, yin) ==
    /\ self.cls = "CVRegress"
    /\ cv_call' = [op |-> "fit", X |-> Xin, y |-> yin, raised |-> "RuntimeError",
                   ret |-> NoArray, before |-> self]
    /\ UNCHANGED <<self, cv_count, regressVars, r2Vars, drawVars>>

\* CVRegress.fit_predict(X, y): return cross_val_predict's value
CVRegress_fit_predict_call(Xin, yin) ==
    /\ self.cls = "CVRegress"
    /\ \E p \in CVRegress_fit_predict(self, Xin, yin) :
           cv_call' = [op |-> "fit_predict", X |-> Xin, y |-> yin, raised |-> "none",
                       ret |-> p, before |-> self]
    /\ cv_count' = IF cv_count < MaxCalls THEN cv_count + 1 ELSE cv_count
    /\ UNCHANGED <<self, regressVars, r2Vars, drawVars>>

\* the X of the method calls: the ramp 0, 1, ..., as an (n, 1) array
RampX == Array2(<<[i \in 1..NumSamples |-> Int2Rat(i - 1)]>>)

cvNext ==
    \/ /\ self.cls = "None"
       /\ \E rin \in WrappedInputs, cv \in 2..MaxCv : CVRegress_init(rin, cv)
    \/ /\ self.cls = "CVRegress"
       /\ \E yin \in XInputs : CVRegress_fit(RampX, yin)
    \/ /\ self.cls = "CVRegress"
       /\ \E yin \in XInputs : CVRegress_fit_predict_call(RampX, yin)

\* ------------------------------------------------------------------ draw
\* strips have 3..MaxVertices vertices
MaxVertices == 4
\* images are MaxSide x MaxSide and (MaxSide - 1) x MaxSide pixels
MaxSide == 3

\* An input array is [shape, data]: a triangle strip's data is its sequence
\* of points <<x, y>>, a vertex_vals' data its sequence of rows (one row of
\* values per vertex).  An image is a sequence of shape[1] * shape[2] pixel
\* values, pixel (x, y) at index x + shape[1] * y + 1.
NoDrawCall == [fn |-> "none", triangle_strip |-> <<>>, vertex_vals |-> <<>>,
               shape |-> <<>>, accumulate |-> FALSE, done |-> FALSE]
NoDrawRet == [raised |-> "none", out |-> <<>>, unpacked |-> FALSE, native_calls |-> 0]

\* a failed assert: nothing is returned, the native routine was not reached
AssertionError == [raised |-> "AssertionError", out |-> <<>>, unpacked |-> FALSE,
                   native_calls |-> 0]

drawInit ==
    /\ draw_call = NoDrawCall
    /\ draw_ret = NoDrawRet

PixelAt(k, w) == <<(k - 1) % w, (k - 1) \div w>>

\* --- the native routines of _gouraud_triangles
\* twice the signed area of (a, b, p)
Edge(a, b, p) == (b[1] - a[1]) * (p[2] - a[2]) - (b[2] - a[2]) * (p[1] - a[1])

\* the side a point on the edge a -> b belongs to: exactly one of an edge and
\* its reverse owns its points, so that two triangles sharing an edge never
\* both cover a pixel on it
OwnsEdge(a, b) == b[2] > a[2] \/ (b[2] = a[2] /\ b[1] > a[1])

InsideEdge(a, b, p) == Edge(a, b, p) > 0 \/ (Edge(a, b, p) = 0 /\ OwnsEdge(a, b))

\* pixel p is covered by the triangle (a, b, c), of either orientation
Covered(a, b, c, p) ==
    IF Edge(a, b, c) > 0
    THEN InsideEdge(a, b, p) /\ InsideEdge(b, c, p) /\ InsideEdge(c, a, p)
    ELSE IF Edge(a, b, c) < 0
    THEN InsideEdge(a, c, p) /\ InsideEdge(c, b, p) /\ InsideEdge(b, a, p)
    ELSE FALSE

\* the values va, vb, vc at the corners interpolated at p
Interpolate(a, b, c, va, vb, vc, p) ==
    Rat(Edge(b, c, p) * va + Edge(c, a, p) * vb + Edge(a, b, p) * vc, Edge(a, b, c))

\* triangles t, t+1, ... of the strip drawn into img, one channel of values
RECURSIVE DrawTriangles(_, _, _, _, _, _)
DrawTriangles(t, pts, vals, img, w, accumulate) ==
    IF t > Len(pts) - 2 THEN img
    ELSE DrawTriangles(t + 1, pts, vals,
            [k \in 1..Len(img) |->
                IF Covered(pts[t], pts[t + 1], pts[t + 2], PixelAt(k, w))
                THEN LET v == Interpolate(pts[t], pts[t + 1], pts[t + 2],
                                          vals[t], vals[t + 1], vals[t + 2], PixelAt(k, w))
                     IN  IF accumulate THEN RAdd(img[k], v) ELSE v
                ELSE img[k]],
            w, accumulate)

\* _gouraud.gouraud_triangle_strip: every channel of out drawn
native_gouraud_triangle_strip(pts, rows, out, shape, accumulate) ==
    [c \in 1..Len(out) |->
        DrawTriangles(1, pts, [i \in 1..Len(rows) |-> rows[i][c]], out[c], shape[1], accumulate)]

\* _gouraud.mask_triangle_strip: the pixels some triangle covers set
native_mask_triangle_strip(pts, out, shape) ==
    [k \in 1..Len(out) |->
        \/ out[k]
        \/ \E t \in 1..(Len(pts) - 2) :
               Covered(pts[t], pts[t + 1], pts[t + 2], PixelAt(k, shape[1]))]

\* --- the wrappers of draw.py
\* numpy.zeros(tuple(shape) + (m,), dtype=float32) with every pixel 1 instead
GouraudOnes(shape, m) == [c \in 1..m |-> [k \in 1..(shape[1] * shape[2]) |-> One]]

\* numpy.zeros(tuple(shape) + vertex_vals.shape[1:], dtype=float32), by channel
GouraudZeros(shape, m) == [c \in 1..m |-> [k \in 1..(shape[1] * shape[2]) |-> Zero]]

\* numpy.zeros(tuple(shape), dtype=bool) with every pixel True instead
MaskOnes(shape) == [k \in 1..(shape[1] * shape[2]) |-> TRUE]

\* numpy.zeros(tuple(shape), dtype=bool)
MaskZeros(shape) == [k \in 1..(shape[1] * shape[2]) |-> FALSE]

\* the assert with the vertex count off by one
StripAssertFrom2(a) == Len(a.shape) = 2 /\ a.shape[2] = 2 /\ a.shape[1] >= 2

\* assert triangle_strip.ndim == 2 and triangle_strip.shape[1] == 2
\*        and len(triangle_strip) > 2
StripAssert(a) == Len(a.shape) = 2 /\ a.shape[2] = 2 /\ a.shape[1] > 2

\* gouraud_triangle_strip(triangle_strip, vertex_vals, shape, accumulate)
gouraud_triangle_strip(triangle_strip, vertex_vals, shape, accumulate) ==
    IF ~StripAssert(triangle_strip) THEN AssertionError
    ELSE IF Len(vertex_vals.shape) \notin {1, 2} THEN AssertionError
    ELSE IF vertex_vals.shape[1] # triangle_strip.shape[1] THEN AssertionError
    ELSE LET unpack_out == Len(vertex_vals.shape) = 1
             m == IF unpack_out THEN 1 ELSE vertex_vals.shape[2]
             out == native_gouraud_triangle_strip(triangle_strip.data, vertex_vals.data,
                        GouraudZeros(shape, m), shape, accumulate)
         IN  [raised |-> "none",
              out |-> IF unpack_out THEN <<out[1]>> ELSE out,
              unpacked |-> unpack_out,
              native_calls |-> 1]

\* mask_triangle_strip(triangle_strip, shape)
mask_triangle_strip(triangle_strip, shape) ==
    IF ~StripAssert(triangle_strip) THEN AssertionError
    ELSE [raised |-> "none",
          out |-> <<native_mask_triangle_strip(triangle_strip.data, MaskZeros(shape), shape)>>,
          unpacked |-> TRUE,
          native_calls |-> 1]

\* --- the calls
VertexPool == {<<0, 0>>, <<2, 0>>, <<0, 2>>, <<2, 2>>}

StripOf(pts) == [shape |-> <<Len(pts), 2>>, data |-> pts]

\* the well-formed strips
ValidStrips == UNION {{StripOf(f) : f \in [1..n -> VertexPool]} : n \in 3..MaxVertices}

\* a scalar, a flat list, rows of three coordinates, a 3-dimensional array,
\* an empty strip and the strips of two vertices
InvalidStrips ==
    {[shape |-> <<>>, data |-> <<>>], [shape |-> <<6>>, data |-> <<>>],
     [shape |-> <<3, 3>>, data |-> <<>>], [shape |-> <<3, 2, 1>>, data |-> <<>>],
     [shape |-> <<0, 2>>, data |-> <<>>]}
        \cup {StripOf(<<p, q>>) : p \in {<<0, 0>>}, q \in VertexPool}

\* per-vertex values: all 0, all 1, and 0, 1, 2, ...
ValuePatterns(n) == {[i \in 1..n |-> 0], [i \in 1..n |-> 1], [i \in 1..n |-> i - 1]}

\* vertex_vals of shape (n,) and of shape (n, 2), the second channel all 1
ValidVals ==
    UNION {{[shape |-> <<n>>, data |-> [i \in 1..n |-> <<v[i]>>]] : v \in ValuePatterns(n)}
             \cup {[shape |-> <<n, 2>>, data |-> [i \in 1..n |-> <<v[i], 1>>]]
                     : v \in ValuePatterns(n)}
           : n \in 3..MaxVertices}

\* a scalar and a 3-dimensional array
InvalidVals == {[shape |-> <<>>, data |-> <<>>], [shape |-> <<3, 1, 1>>, data |-> <<>>]}

ShapeInputs == {<<MaxSide, MaxSide>>, <<MaxSide - 1, MaxSide>>}

NoVals == [shape |-> <<>>, data |-> <<>>]

\* the calls: the function and its arguments drawn
drawInputs ==
    /\ draw_ret = NoDrawRet
    /\ \/ \E ts \in ValidStrips \cup InvalidStrips, vv \in ValidVals \cup InvalidVals,
             sh \in ShapeInputs, acc \in BOOLEAN :
               draw_call = [fn |-> "gouraud_triangle_strip", triangle_strip |-> ts,
                            vertex_vals |-> vv, shape |-> sh, accumulate |-> acc,
                            done |-> FALSE]
       \/ \E ts \in ValidStrips \cup InvalidStrips, sh \in ShapeInputs :
               draw_call = [fn |-> "mask_triangle_strip", triangle_strip |-> ts,
                            vertex_vals |-> NoVals, shape |-> sh, accumulate |-> FALSE,
                            done |-> FALSE]

gouraud_call ==
    /\ draw_call.fn = "gouraud_triangle_strip"
    /\ ~draw_call.done
    /\ draw_ret' = gouraud_triangle_strip(draw_call.triangle_strip, draw_call.vertex_vals,
                                          draw_call.shape, draw_call.accumulate)
    /\ draw_call' = [draw_call EXCEPT !.done = TRUE]
    /\ UNCHANGED <<regressVars, r2Vars, cvVars>>

mask_call ==
    /\ draw_call.fn = "mask_triangle_strip"
    /\ ~draw_call.done
    /\ draw_ret' = mask_triangle_strip(draw_call.triangle_strip, draw_call.shape)
    /\ draw_call' = [draw_call EXCEPT !.done = TRUE]
    /\ UNCHANGED <<regressVars, r2Vars, cvVars>>

drawNext ==
    \/ gouraud_call
    \/ mask_call

\* ------------------------------------------------------- specifications
\* CVRegress starts before its construction; regress, r_squared,
\* gouraud_triangle_strip and mask_triangle_strip start at the entry of a call
\* with its arguments drawn
Init == regressInit /\ r2Init /\ cvInit /\ drawInit
InitRegress == regressInputs /\ r2Init /\ cvInit /\ drawInit
InitR2 == regressInit /\ r2Inputs /\ cvInit /\ drawInit
InitDraw == regressInit /\ r2Init /\ cvInit /\ drawInputs

SpecRegress == InitRegress /\ [][regressNext]_vars
SpecCV == Init /\ [][cvNext]_vars
SpecR2 == InitR2 /\ [][r2Next]_vars
SpecDraw == InitDraw /\ [][drawNext]_vars

\* ----------------------------------------------- properties of r_squared
SumSq(col) == RSum([i \in 1..Len(col) |-> RMul(col[i], col[i])])

\* the sum of the squared deviations of a column from its mean
SumSqDev(col) ==
    RSub(SumSq(col), RDiv(RMul(RSum(col), RSum(col)), Int2Rat(Len(col))))

\* a column of nonzero variance
NonConstant(col) == \E i, k \in 1..Len(col) : col[i] # col[k]

Column(a, b, j) == [i \in 1..Len(a.cols[j]) |-> RSub(a.cols[j][i], b.cols[j][i])]

\* C5 as stated: per column of nonzero variance, R2 is 1 minus the variance
\* of y - y_est over the variance of y, and resid = y - y_est.
C5_ResidualVariance ==
    r2_call.done =>
        \A j \in 1..Len(r2_call.y.cols) :
            NonConstant(r2_call.y.cols[j]) =>
                /\ r2_call.R2[j] =
                     Num(RSub(One, RDiv(Var(Column(r2_call.y, r2_call.y_est, j)),
                                        Var(r2_call.y.cols[j]))))
                /\ r2_call.resid.cols[j] = Column(r2_call.y, r2_call.y_est, j)

\* C5, amended: per column of nonzero variance, R2 is 1 minus the mean of the
\* squared residuals (not centred on their mean) over the variance of y, that
\* is (1 - R2) * sum((y - mean(y))^2) = sum((y - y_est)^2); it is 1 minus
\* var(y - y_est) / var(y) exactly when the residuals of the column sum to
\* zero; and resid = y - y_est.
C5_MeanSquaredResidual ==
    r2_call.done =>
        \A j \in 1..Len(r2_call.y.cols) :
            NonConstant(r2_call.y.cols[j]) =>
                /\ r2_call.R2[j].kind = "num"
                /\ RMul(RSub(One, r2_call.R2[j].val), SumSqDev(r2_call.y.cols[j]))
                     = SumSq(Column(r2_call.y, r2_call.y_est, j))
                /\ RIsZero(RSum(Column(r2_call.y, r2_call.y_est, j)))
                     <=> r2_call.R2[j] =
                           Num(RSub(One, RDiv(Var(Column(r2_call.y, r2_call.y_est, j)),
                                              Var(r2_call.y.cols[j]))))
                /\ r2_call.resid.cols[j] = Column(r2_call.y, r2_call.y_est, j)

C5_Witness ==
    /\ r2_call.done
    /\ r2_call.y.ndim = 2
    /\ \A j \in 1..2 : NonConstant(r2_call.y.cols[j])
    /\ RIsZero(RSum(r2_call.resid.cols[1]))
    /\ ~RIsZero(SumSq(r2_call.resid.cols[1]))
    /\ ~RIsZero(RSum(r2_call.resid.cols[2]))
    /\ r2_call.R2[1] # r2_call.R2[2]

\* ----------------------------------------------- properties of CVRegress
\* C2: CVRegress.fit(X, y) always raises RuntimeError, whatever X and y are
\* and whether or not fit_predict was called before; it returns nothing, does
\* not fit the wrapped regressor and leaves regressor and cv unchanged.
C2_FitAlwaysRaises ==
    cv_call.op = "fit" =>
        /\ cv_call.raised = "RuntimeError"
        /\ cv_call.ret = NoArray
        /\ self.fitted = cv_call.before.fitted
        /\ self.cv = cv_call.before.cv
        /\ self = cv_call.before

C2_Witness ==
    /\ cv_call.op = "fit"
    /\ cv_call.raised = "RuntimeError"
    /\ cv_count > 0
    /\ self.fitted = NotFitted

\* ------------------------------------------------ properties of draw.py
GouraudCall == draw_call.done /\ draw_call.fn = "gouraud_triangle_strip"
Returned == draw_ret.raised = "none"

NonZeroPixels(img) == {k \in 1..Len(img) : ~RIsZero(img[k])}
TruePixels(img) == {k \in 1..Len(img) : img[k]}

\* the mask of the call's strip and shape
MaskOfCall == mask_triangle_strip(draw_call.triangle_strip, draw_call.shape).out[1]

AllPositive(vertex_vals) ==
    \A i \in 1..Len(vertex_vals.data) :
        \A c \in 1..Len(vertex_vals.data[i]) : vertex_vals.data[i][c] > 0

\* C6 as stated: for every strip and shape (and any vertex values) the pixels
\* where gouraud_triangle_strip is nonzero are the pixels mask_triangle_strip
\* sets.
C6_NonZeroIsMask ==
    (GouraudCall /\ Returned) =>
        \A c \in 1..Len(draw_ret.out) :
            NonZeroPixels(draw_ret.out[c]) = TruePixels(MaskOfCall)

\* C6, amended: for vertex values that are all strictly positive, the pixels
\* where gouraud_triangle_strip is nonzero are the pixels mask_triangle_strip
\* sets, for every strip, shape and accumulate.
C6_PositiveNonZeroIsMask ==
    (GouraudCall /\ Returned /\ AllPositive(draw_call.vertex_vals)) =>
        \A c \in 1..Len(draw_ret.out) :
            NonZeroPixels(draw_ret.out[c]) = TruePixels(MaskOfCall)

C6_Witness ==
    /\ GouraudCall
    /\ Returned
    /\ AllPositive(draw_call.vertex_vals)
    /\ Len(draw_ret.out) = 2
    /\ TruePixels(MaskOfCall) # {}
    /\ TruePixels(MaskOfCall) # 1..Len(MaskOfCall)

\* the triangles of the call's strip that cover pixel k
Covering(k) ==
    {t \in 1..(Len(draw_call.triangle_strip.data) - 2) :
        Covered(draw_call.triangle_strip.data[t], draw_call.triangle_strip.data[t + 1],
                draw_call.triangle_strip.data[t + 2], PixelAt(k, draw_call.shape[1]))}

\* the call's output with accumulate the other way round
OtherAccumulate ==
    gouraud_triangle_strip(draw_call.triangle_strip, draw_call.vertex_vals,
                           draw_call.shape, ~draw_call.accumulate).out

\* channel c of the strip's triangle t interpolated at pixel k
ValueAt(t, c, k) ==
    Interpolate(draw_call.triangle_strip.data[t], draw_call.triangle_strip.data[t + 1],
                draw_call.triangle_strip.data[t + 2],
                draw_call.vertex_vals.data[t][c], draw_call.vertex_vals.data[t + 1][c],
                draw_call.vertex_vals.data[t + 2][c], PixelAt(k, draw_call.shape[1]))

RECURSIVE SumOver(_, _, _)
SumOver(ts, c, k) ==
    IF ts = {} THEN Zero
    ELSE LET t == CHOOSE u \in ts : TRUE
         IN  RAdd(ValueAt(t, c, k), SumOver(ts \ {t}, c, k))

\* C7: accumulate=True and accumulate=False give the same value at every
\* pixel that at most one triangle covers, so identical outputs for a strip
\* whose triangles do not overlap; where several triangles cover a pixel,
\* accumulate=True holds the sum of their values.
C7_AccumulateOnlyOnOverlap ==
    (GouraudCall /\ Returned) =>
        \A c \in 1..Len(draw_ret.out) : \A k \in 1..Len(draw_ret.out[c]) :
            /\ Cardinality(Covering(k)) <= 1 => draw_ret.out[c][k] = OtherAccumulate[c][k]
            /\ draw_call.accumulate => draw_ret.out[c][k] = SumOver(Covering(k), c, k)

C7_Witness ==
    /\ GouraudCall
    /\ Returned
    /\ draw_call.accumulate
    /\ \A k \in 1..Len(draw_ret.out[1]) : Cardinality(Covering(k)) <= 1
    /\ \E k1, k2 \in 1..Len(draw_ret.out[1]) :
           /\ Covering(k1) = {1}
           /\ Covering(k2) = {2}
           /\ ~RIsZero(draw_ret.out[1][k1])
           /\ ~RIsZero(draw_ret.out[1][k2])
    /\ draw_ret.out = OtherAccumulate

\* what C8 calls an invalid strip and invalid vertex values
BadStrip(a) == Len(a.shape) # 2 \/ a.shape[2] # 2 \/ a.shape[1] < 3
BadVals(v, a) == Len(v.shape) \notin {1, 2} \/ v.shape[1] # a.shape[1]

\* C8: a strip that is not an (n, 2) array or has fewer than 3 vertices fails
\* the assert of both functions, and in gouraud_triangle_strip so do vertex
\* values that are not 1- or 2-dimensional or whose length is not the vertex
\* count; nothing is returned and the native routine is not called.
C8_AssertBeforeNative ==
    (draw_call.done
        /\ \/ BadStrip(draw_call.triangle_strip)
           \/ GouraudCall /\ BadVals(draw_call.vertex_vals, draw_call.triangle_strip)) =>
        /\ draw_ret.raised = "AssertionError"
        /\ draw_ret.out = <<>>
        /\ draw_ret.native_calls = 0

C8_Witness ==
    /\ GouraudCall
    /\ ~BadStrip(draw_call.triangle_strip)
    /\ Len(draw_call.vertex_vals.shape) = 1
    /\ draw_call.vertex_vals.shape[1] > draw_call.triangle_strip.shape[1]
    /\ draw_ret.raised = "AssertionError"
    /\ draw_ret.native_calls = 0

=============================================================================
